---- MODULE Spec2Model ----
(***************************************************************************)
(* Model of automation.py: the MoneyPrinterAutomation runner.  One runner  *)
(* object holds a configuration dictionary (read once at construction) and *)
(* the topic cursor topic_index.  The operations are get_next_topic,       *)
(* generate_video, run_once and run_daemon.  Time is counted in hours; the *)
(* only statements that take time are the blocking requests.post call and  *)
(* time.sleep, which sleeps exactly the requested duration.                *)
(***************************************************************************)
EXTENDS Integers, Sequences, FiniteSets, TLC

\* ------------------------------------------------------------------ bounds
\* longest configured topic list
MaxTopics == 2
\* total number of get_next_topic / run_once invocations in one behaviour
MaxCalls == 3
\* longest duration (hours) of one blocking requests.post call
MaxDur == 2

\* ------------------------------------------------------- program constants
DEFAULT_INTERVAL_HOURS == 24

\* Python's None, as returned by get_next_topic and as the default of the
\* interval_hours parameter of run_daemon
None == "<None>"

\* the strings a topic list is built from; the empty string is a valid YAML
\* string and is falsy in Python
TopicNames == {"", "Topic 1", "Topic 2"}

\* values of topic_selection_mode found in configurations
SelectionModes == {"sequential", "random"}

\* the ways one requests.post / raise_for_status / json / status test can end,
\* the backend answering, when it answers, with a JSON object as its interface
\* says: status "success", any other status (app_failure), no connection,
\* no answer in time, an HTTP error status or another transport error
\* (request_exception)
Outcomes == {"success", "app_failure", "connection_error", "timeout", "request_exception"}

\* ------------------------------------------------------------- dictionaries
\* dict.get(key, default)
Get(d, key, default) == IF key \in DOMAIN d THEN d[key] ELSE default

\* a dictionary with at most the one key: absent when present is FALSE
Entry(present, key, value) == IF present THEN key :> value ELSE <<>>

\* Python truthiness of a topic (a string or None): "not topic"
Falsy(topic) == topic = None \/ topic = ""

\* every sequence over S of length 0..n
SeqUpTo(S, n) == UNION {[1..k -> S] : k \in 0..n}

\* the configurations yaml.safe_load can hand to the runner
Configs ==
    {Entry(he, "enabled", e) @@ Entry(ht, "video_topics", t)
        @@ Entry(hm, "topic_selection_mode", m)
        @@ Entry(hi, "generation_interval_hours", 2) :
        he \in BOOLEAN, e \in BOOLEAN, ht \in BOOLEAN, t \in SeqUpTo(TopicNames, MaxTopics),
        hm \in BOOLEAN, m \in SelectionModes, hi \in BOOLEAN}

\* the video_settings dictionaries: each key given, with a value that is not
\* the default, or missing
VideoSettings ==
    {Entry(h1, "ai_model", "gpt4") @@ Entry(h2, "voice", "en_us_002")
        @@ Entry(h3, "paragraph_number", 3) @@ Entry(h4, "threads", 4)
        @@ Entry(h5, "use_music", TRUE)
        @@ Entry(h6, "automate_youtube_upload", TRUE)
        @@ Entry(h7, "subtitles_position", "center,center")
        @@ Entry(h8, "subtitles_color", "#FF0000") :
        h1 \in BOOLEAN, h2 \in BOOLEAN, h3 \in BOOLEAN, h4 \in BOOLEAN,
        h5 \in BOOLEAN, h6 \in BOOLEAN, h7 \in BOOLEAN, h8 \in BOOLEAN}

\* enabled configurations with one topic, with and without video_settings
SettingsConfigs ==
    {("enabled" :> TRUE) @@ ("video_topics" :> <<t>>) @@ Entry(hs, "video_settings", vs) :
        t \in TopicNames \ {""}, hs \in BOOLEAN, vs \in VideoSettings}

\* the values the caller passes as interval_hours: <<>> stands for None (no
\* --interval on the command line), <<h>> for an explicit override of h hours
Overrides == {<<>>, <<0>>, <<1>>}

\* ------------------------------------------------------------------- state
VARIABLES
    config,          \* self.config, loaded once by __init__
    topic_index,     \* self.topic_index, the cursor
    pc,              \* where the single thread of control is
    caller,          \* who called run_once: "direct" or "daemon"
    calls,           \* get_next_topic and run_once invocations so far
    returned,        \* the values get_next_topic has returned, in order
    topic,           \* run_once's local variable topic
    result,          \* what the last run_once returned: "none", "True", "False"
    run_logs,        \* log calls made inside the current / last run_once
    run_requests,    \* requests.post calls made inside the current / last run_once
    outcome,         \* how the last requests.post of the current run_once ended
    payload,         \* the JSON body of the current run_once's request
    exit_code,       \* the status main passed to sys.exit, -1 while it has not
    requests,        \* requests.post calls made since construction
    in_flight,       \* requests.post calls that have not returned yet
    now,             \* datetime.now(), in hours
    interval_arg,    \* the interval_hours argument of run_daemon
    interval_hours,  \* run_daemon's effective interval
    start_time,      \* run_daemon's start_time of the current cycle
    end_time,        \* run_daemon's end_time of the last finished cycle
    prev_start,      \* start_time of the cycle before the current one
    cycle,           \* daemon cycles started
    interrupted      \* a KeyboardInterrupt has been delivered

vars == <<config, topic_index, pc, caller, calls, returned, topic, result,
          run_logs, run_requests, outcome, payload, exit_code,
          requests, in_flight, now, interval_arg, interval_hours, start_time,
          end_time, prev_start, cycle, interrupted>>

cursorVars == <<topic_index, returned>>
runVars == <<topic, result, run_logs, run_requests, outcome, payload>>
netVars == <<requests, in_flight>>
daemonVars == <<interval_arg, interval_hours, start_time, end_time, prev_start,
                cycle, interrupted, exit_code>>

\* ---------------------------------------------------------- get_next_topic
\* variant: the cursor is advanced before the list is read
SequentialIndexAfterIncrement(idx, n) == ((idx + 1) % n) + 1

\* position (1-based) of the topic a sequential selection reads
SequentialIndex(idx, n) == (idx % n) + 1

\* variant: the cursor is advanced twice per selection
NextCursorTwice(idx) == idx + 2

\* the cursor after a sequential selection
NextCursor(idx) == idx + 1

\* the positions random.choice(topics) can pick
RandomChoices(topics) == 1..Len(topics)

\* variant: the cursor is advanced whatever the list and the mode are
GetNextTopicResultsAlwaysAdvance(cfg, idx) ==
    LET topics == Get(cfg, "video_topics", <<>>)
        selection_mode == Get(cfg, "topic_selection_mode", "sequential")
    IN  IF Len(topics) = 0
        THEN {[topic |-> None, topic_index |-> idx + 1, logs |-> 1]}
        ELSE IF selection_mode = "random"
        THEN {[topic |-> topics[i], topic_index |-> idx + 1, logs |-> 0] :
                 i \in RandomChoices(topics)}
        ELSE {[topic |-> topics[SequentialIndex(idx, Len(topics))],
               topic_index |-> NextCursor(idx), logs |-> 0]}

\* every way one call of get_next_topic can end: the topic returned, the
\* cursor afterwards and the number of log calls made
GetNextTopicResults(cfg, idx) ==
    LET topics == Get(cfg, "video_topics", <<>>)
        selection_mode == Get(cfg, "topic_selection_mode", "sequential")
    IN  IF Len(topics) = 0
        THEN {[topic |-> None, topic_index |-> idx, logs |-> 1]}
        ELSE IF selection_mode = "random"
        THEN {[topic |-> topics[i], topic_index |-> idx, logs |-> 0] :
                 i \in RandomChoices(topics)}
        ELSE {[topic |-> topics[SequentialIndex(idx, Len(topics))],
               topic_index |-> NextCursor(idx), logs |-> 0]}

\* ---------------------------------------------------------- generate_video
\* the body of a run_once that has sent no request
NoPayload == <<>>

\* variant: the thread count is sent as the paragraph count
RequestDataThreadsAsParagraphs(settings, t) ==
    [videoSubject |-> t,
     aiModel |-> Get(settings, "ai_model", "g4f"),
     voice |-> Get(settings, "voice", "en_us_001"),
     paragraphNumber |-> Get(settings, "threads", 2),
     automateYoutubeUpload |-> Get(settings, "automate_youtube_upload", FALSE),
     useMusic |-> Get(settings, "use_music", FALSE),
     zipUrl |-> Get(settings, "zip_url", ""),
     threads |-> Get(settings, "threads", 2),
     subtitlesPosition |-> Get(settings, "subtitles_position", "center,bottom"),
     customPrompt |-> Get(settings, "custom_prompt", ""),
     color |-> Get(settings, "subtitles_color", "#FFFF00")]

\* the dictionary data that generate_video sends as the JSON body
RequestData(settings, t) ==
    [videoSubject |-> t,
     aiModel |-> Get(settings, "ai_model", "g4f"),
     voice |-> Get(settings, "voice", "en_us_001"),
     paragraphNumber |-> Get(settings, "paragraph_number", 1),
     automateYoutubeUpload |-> Get(settings, "automate_youtube_upload", FALSE),
     useMusic |-> Get(settings, "use_music", FALSE),
     zipUrl |-> Get(settings, "zip_url", ""),
     threads |-> Get(settings, "threads", 2),
     subtitlesPosition |-> Get(settings, "subtitles_position", "center,bottom"),
     customPrompt |-> Get(settings, "custom_prompt", ""),
     color |-> Get(settings, "subtitles_color", "#FFFF00")]

\* the outcomes that reach generate_video as an exception raised inside its
\* try block
Raises(o) == o \in {"connection_error", "timeout", "request_exception"}

\* variant: the handler for requests.exceptions.RequestException is missing
CaughtWithoutGeneric(o) == o \in {"connection_error", "timeout"}

\* the exceptions the except clauses of generate_video catch
Caught(o) == o \in {"connection_error", "timeout", "request_exception"}

\* the value generate_video returns for each way the request can end
GenerateVideoResult(o) == IF o = "success" THEN "True" ELSE "False"

\* log calls of generate_video in the branch the outcome takes
GenerateVideoLogs(o) ==
    IF o \in {"success", "connection_error"} THEN 2 ELSE 1

\* -------------------------------------------------------------- run_daemon
\* variant: an argument of 0 is taken for no argument
EffectiveIntervalFalsyArgument(cfg, arg) ==
    IF Len(arg) = 0 \/ arg[1] = 0
    THEN Get(cfg, "generation_interval_hours", DEFAULT_INTERVAL_HOURS)
    ELSE arg[1]

\* the effective interval: the argument unless it is None, else the
\* configuration's value, else the default
EffectiveInterval(cfg, arg) ==
    IF Len(arg) = 0
    THEN Get(cfg, "generation_interval_hours", DEFAULT_INTERVAL_HOURS)
    ELSE arg[1]

\* variant: the next run is scheduled from the moment the cycle ended
NextRunFromNow(start, interval) == now + interval

\* next_run = start_time + timedelta(hours=interval_hours)
NextRun(start, interval) == start + interval

\* wait_seconds = (next_run - datetime.now()).total_seconds(), in hours
WaitSeconds(start, interval, t) == NextRun(start, interval) - t

\* variant: a missing enabled key counts as enabled
EnabledByDefault(cfg) == Get(cfg, "enabled", TRUE)

\* self.config.get('enabled', False)
Enabled(cfg) == Get(cfg, "enabled", FALSE)

\* -------------------------------------------------------------------- main
\* variant: main exits with 0 whatever run_once returned
ExitStatusAlwaysZero(r) == 0

\* 0 if success else 1
ExitStatus(r) == IF r = "True" THEN 0 ELSE 1

\* -------------------------------------------------------------------- Init
\* the runner as __init__ leaves it, whatever configuration it has loaded
FreshRunner ==
    /\ topic_index = 0
    /\ pc = "ready"
    /\ caller = "direct"
    /\ calls = 0
    /\ returned = <<>>
    /\ topic = None
    /\ result = "none"
    /\ run_logs = 0
    /\ run_requests = 0
    /\ outcome = "none"
    /\ payload = NoPayload
    /\ exit_code = -1
    /\ requests = 0
    /\ in_flight = 0
    /\ now = 0
    /\ interval_arg = <<>>
    /\ interval_hours = 0
    /\ start_time = 0
    /\ end_time = 0
    /\ prev_start = 0
    /\ cycle = 0
    /\ interrupted = FALSE

Init ==
    /\ config \in Configs
    /\ FreshRunner

\* a runner constructed on a configuration that may carry video_settings
InitSettings ==
    /\ config \in SettingsConfigs
    /\ FreshRunner

\* ----------------------------------------------------------------- actions
\* a direct call of get_next_topic(), as the tests make it
GetNextTopic ==
    /\ pc = "ready"
    /\ calls < MaxCalls
    /\ \E r \in GetNextTopicResults(config, topic_index) :
          /\ topic_index' = r.topic_index
          /\ returned' = Append(returned, r.topic)
    /\ calls' = calls + 1
    /\ UNCHANGED <<config, pc, caller, now>>
    /\ UNCHANGED runVars
    /\ UNCHANGED netVars
    /\ UNCHANGED daemonVars

\* a direct call of run_once() enters the method
RunOnceCall ==
    /\ pc = "ready"
    /\ calls < MaxCalls
    /\ pc' = "run_once"
    /\ caller' = "direct"
    /\ calls' = calls + 1
    /\ topic' = None
    /\ result' = "none"
    /\ run_logs' = 0
    /\ run_requests' = 0
    /\ outcome' = "none"
    /\ payload' = NoPayload
    /\ UNCHANGED <<config, now>>
    /\ UNCHANGED cursorVars
    /\ UNCHANGED netVars
    /\ UNCHANGED daemonVars

\* variant: the request is sent in the background and run_once returns at once
RunOnceBodyInBackground ==
    /\ pc = "run_once"
    /\ IF ~Enabled(config)
       THEN /\ run_logs' = run_logs + 1
            /\ result' = "False"
            /\ pc' = "returned"
            /\ UNCHANGED <<topic, run_requests, outcome, payload>>
            /\ UNCHANGED cursorVars
            /\ UNCHANGED netVars
       ELSE \E r \in GetNextTopicResults(config, topic_index) :
            /\ topic_index' = r.topic_index
            /\ returned' = Append(returned, r.topic)
            /\ topic' = r.topic
            /\ UNCHANGED outcome
            /\ pc' = "returned"
            /\ IF Falsy(r.topic)
               THEN /\ run_logs' = run_logs + r.logs
                    /\ result' = "False"
                    /\ UNCHANGED <<run_requests, payload>>
                    /\ UNCHANGED netVars
               ELSE /\ run_logs' = run_logs + r.logs + 1
                    /\ payload' = RequestData(Get(config, "video_settings", <<>>),
                                               r.topic)
                    /\ run_requests' = run_requests + 1
                    /\ requests' = requests + 1
                    /\ in_flight' = in_flight + 1
                    /\ result' = "True"
    /\ UNCHANGED <<config, caller, calls, now>>
    /\ UNCHANGED daemonVars

\* run_once up to its first return or up to the blocking requests.post of
\* generate_video
RunOnceBody ==
    /\ pc = "run_once"
    /\ IF ~Enabled(config)
       THEN /\ run_logs' = run_logs + 1
            /\ result' = "False"
            /\ pc' = "returned"
            /\ UNCHANGED <<topic, run_requests, outcome, payload>>
            /\ UNCHANGED cursorVars
            /\ UNCHANGED netVars
       ELSE \E r \in GetNextTopicResults(config, topic_index) :
            /\ topic_index' = r.topic_index
            /\ returned' = Append(returned, r.topic)
            /\ topic' = r.topic
            /\ UNCHANGED outcome
            /\ IF Falsy(r.topic)
               THEN /\ run_logs' = run_logs + r.logs
                    /\ result' = "False"
                    /\ pc' = "returned"
                    /\ UNCHANGED <<run_requests, payload>>
                    /\ UNCHANGED netVars
               ELSE \* generate_video(topic): one log line, then the request
                    /\ run_logs' = run_logs + r.logs + 1
                    /\ payload' = RequestData(Get(config, "video_settings", <<>>),
                                               r.topic)
                    /\ run_requests' = run_requests + 1
                    /\ requests' = requests + 1
                    /\ in_flight' = in_flight + 1
                    /\ pc' = "posting"
                    /\ UNCHANGED result
    /\ UNCHANGED <<config, caller, calls, now>>
    /\ UNCHANGED daemonVars

\* variant: a request that did not succeed is sent once more
RequestReturnRetry(o, d) ==
    /\ pc = "posting"
    /\ now' = now + d
    /\ outcome' = o
    /\ run_logs' = run_logs + GenerateVideoLogs(o)
    /\ IF o # "success" /\ run_requests < 2
       THEN /\ run_requests' = run_requests + 1
            /\ requests' = requests + 1
            /\ UNCHANGED <<in_flight, result, pc>>
       ELSE /\ in_flight' = in_flight - 1
            /\ result' = GenerateVideoResult(o)
            /\ pc' = "returned"
            /\ UNCHANGED <<run_requests, requests>>
    /\ UNCHANGED <<config, caller, calls, topic, payload>>
    /\ UNCHANGED cursorVars
    /\ UNCHANGED daemonVars

\* the blocking request ends, after d hours, in one of the outcomes and
\* generate_video and run_once return
RequestReturn(o, d) ==
    /\ pc = "posting"
    /\ now' = now + d
    /\ in_flight' = in_flight - 1
    /\ outcome' = o
    /\ IF Raises(o) /\ ~Caught(o)
       THEN \* the exception leaves generate_video, run_once and their caller
            /\ pc' = "crashed"
            /\ UNCHANGED <<run_logs, result>>
       ELSE /\ run_logs' = run_logs + GenerateVideoLogs(o)
            /\ result' = GenerateVideoResult(o)
            /\ pc' = "returned"
    /\ UNCHANGED <<config, caller, calls, topic, run_requests, requests, payload>>
    /\ UNCHANGED cursorVars
    /\ UNCHANGED daemonVars

\* run_once hands its result to a direct caller
RunOnceReturn ==
    /\ pc = "returned"
    /\ caller = "direct"
    /\ pc' = "ready"
    /\ UNCHANGED <<config, caller, calls, now>>
    /\ UNCHANGED cursorVars
    /\ UNCHANGED runVars
    /\ UNCHANGED netVars
    /\ UNCHANGED daemonVars

\* main, without --daemon, calls run_once on the runner it has just constructed
MainRunOnce ==
    /\ pc = "ready"
    /\ calls = 0
    /\ pc' = "run_once"
    /\ caller' = "main"
    /\ calls' = calls + 1
    /\ UNCHANGED <<config, now>>
    /\ UNCHANGED cursorVars
    /\ UNCHANGED runVars
    /\ UNCHANGED netVars
    /\ UNCHANGED daemonVars

\* main passes run_once's result to sys.exit
MainExit ==
    /\ pc = "returned"
    /\ caller = "main"
    /\ exit_code' = ExitStatus(result)
    /\ pc' = "exited"
    /\ UNCHANGED <<config, caller, calls, now, interval_arg, interval_hours,
                   start_time, end_time, prev_start, cycle, interrupted>>
    /\ UNCHANGED cursorVars
    /\ UNCHANGED runVars
    /\ UNCHANGED netVars

\* main calls run_daemon(interval_hours) on the runner it has just constructed
RunDaemon(arg) ==
    /\ pc = "ready"
    /\ calls = 0
    /\ pc' = "setup"
    /\ caller' = "daemon"
    /\ interval_arg' = arg
    /\ UNCHANGED <<config, calls, now, interval_hours, start_time, end_time,
                   prev_start, cycle, interrupted, exit_code>>
    /\ UNCHANGED cursorVars
    /\ UNCHANGED runVars
    /\ UNCHANGED netVars

\* the statements of run_daemon before its try block: the interval is
\* resolved and the three start-up lines are logged
DaemonSetup ==
    /\ pc = "setup"
    /\ interval_hours' = EffectiveInterval(config, interval_arg)
    /\ pc' = "loop_top"
    /\ UNCHANGED <<config, caller, calls, now, interval_arg, start_time, end_time,
                   prev_start, cycle, interrupted, exit_code>>
    /\ UNCHANGED cursorVars
    /\ UNCHANGED runVars
    /\ UNCHANGED netVars

\* the top of the loop: start_time is read and run_once is entered
DaemonCycleStart ==
    /\ pc = "loop_top"
    /\ calls < MaxCalls
    /\ start_time' = now
    /\ prev_start' = start_time
    /\ cycle' = cycle + 1
    /\ calls' = calls + 1
    /\ topic' = None
    /\ result' = "none"
    /\ run_logs' = 0
    /\ run_requests' = 0
    /\ outcome' = "none"
    /\ payload' = NoPayload
    /\ pc' = "run_once"
    /\ UNCHANGED <<config, caller, now, interval_arg, interval_hours, end_time,
                   interrupted, exit_code>>
    /\ UNCHANGED cursorVars
    /\ UNCHANGED netVars

\* variant: a failed cycle ends the loop
DaemonCycleEndStopsOnFailure ==
    /\ pc = "returned"
    /\ caller = "daemon"
    /\ end_time' = now
    /\ pc' = IF result = "False" THEN "stopped"
             ELSE IF WaitSeconds(start_time, interval_hours, now) > 0
             THEN "sleeping" ELSE "loop_top"
    /\ UNCHANGED <<config, caller, calls, now, interval_arg, interval_hours,
                   start_time, prev_start, cycle, interrupted, exit_code>>
    /\ UNCHANGED cursorVars
    /\ UNCHANGED runVars
    /\ UNCHANGED netVars

\* run_once has returned to the loop: end_time is read, the outcome is logged
\* and the loop either sleeps or goes round at once
DaemonCycleEnd ==
    /\ pc = "returned"
    /\ caller = "daemon"
    /\ end_time' = now
    /\ pc' = IF WaitSeconds(start_time, interval_hours, now) > 0
             THEN "sleeping" ELSE "loop_top"
    /\ UNCHANGED <<config, caller, calls, now, interval_arg, interval_hours,
                   start_time, prev_start, cycle, interrupted, exit_code>>
    /\ UNCHANGED cursorVars
    /\ UNCHANGED runVars
    /\ UNCHANGED netVars

\* time.sleep(wait_seconds) returns
DaemonWake ==
    /\ pc = "sleeping"
    /\ now' = now + WaitSeconds(start_time, interval_hours, end_time)
    /\ pc' = "loop_top"
    /\ UNCHANGED <<config, caller, calls>>
    /\ UNCHANGED cursorVars
    /\ UNCHANGED runVars
    /\ UNCHANGED netVars
    /\ UNCHANGED daemonVars

\* a KeyboardInterrupt is delivered while run_daemon runs: inside the try
\* block it is caught and run_daemon returns, before the try block it
\* propagates to the caller
Interrupt ==
    /\ caller = "daemon"
    /\ pc \in {"setup", "loop_top", "run_once", "posting", "returned", "sleeping"}
    /\ interrupted' = TRUE
    /\ pc' = IF pc = "setup" THEN "raised" ELSE "stopped"
    /\ in_flight' = 0
    /\ UNCHANGED <<config, caller, calls, now, requests, interval_arg,
                   interval_hours, start_time, end_time, prev_start, cycle,
                   exit_code>>
    /\ UNCHANGED cursorVars
    /\ UNCHANGED runVars

Next ==
    \/ GetNextTopic
    \/ RunOnceCall
    \/ RunOnceBody
    \/ \E o \in Outcomes, d \in 0..MaxDur : RequestReturn(o, d)
    \/ RunOnceReturn
    \/ MainRunOnce
    \/ MainExit
    \/ \E arg \in Overrides : RunDaemon(arg)
    \/ DaemonSetup
    \/ DaemonCycleStart
    \/ DaemonCycleEnd
    \/ DaemonWake
    \/ Interrupt

Spec == Init /\ [][Next]_vars

\* At the top of the loop nothing the earlier iterations left behind is read
\* again except the cursor, and of the cursor only its remainder modulo the
\* topic count (line 86): the clock is read anew, start_time, end_time and
\* run_once's locals are assigned before they are used.  Two states at the top
\* of the loop that agree on the configuration, the interval and that
\* remainder have the same future, and this step goes from one to the other
\* with the counters of the finished cycle at their initial values.
ForgetFinishedCycle ==
    /\ pc = "loop_top"
    /\ cycle >= 1
    /\ topic_index' = IF Len(Get(config, "video_topics", <<>>)) = 0
                      THEN topic_index
                      ELSE topic_index % Len(Get(config, "video_topics", <<>>))
    /\ returned' = <<>>
    /\ calls' = 0
    /\ cycle' = 0
    /\ topic' = None
    /\ result' = "none"
    /\ run_logs' = 0
    /\ run_requests' = 0
    /\ outcome' = "none"
    /\ payload' = NoPayload
    /\ requests' = 0
    /\ now' = 0
    /\ start_time' = 0
    /\ end_time' = 0
    /\ prev_start' = 0
    /\ UNCHANGED <<config, pc, caller, in_flight, interval_arg, interval_hours,
                   interrupted, exit_code>>

\* the daemon left to run for ever: it is never interrupted, and a new cycle
\* starts from the state ForgetFinishedCycle leaves
NextForever ==
    \/ \E arg \in Overrides : RunDaemon(arg)
    \/ DaemonSetup
    \/ (cycle = 0 /\ DaemonCycleStart)
    \/ RunOnceBody
    \/ \E o \in Outcomes, d \in 0..MaxDur : RequestReturn(o, d)
    \/ DaemonCycleEnd
    \/ DaemonWake
    \/ ForgetFinishedCycle

\* every network call and every sleep finishes and the thread goes on
SpecForever == Init /\ [][NextForever]_vars /\ WF_vars(NextForever)

\* direct calls of run_once on a configuration with video_settings, the
\* request taking no time
NextSettings ==
    \/ RunOnceCall
    \/ RunOnceBody
    \/ \E o \in Outcomes : RequestReturn(o, 0)
    \/ RunOnceReturn

SpecSettings == InitSettings /\ [][NextSettings]_vars

\* ------------------------------------------------------------------- types
TypeOK ==
    /\ config \in Configs \cup SettingsConfigs
    /\ topic_index \in 0..MaxCalls
    /\ pc \in {"ready", "run_once", "posting", "returned", "setup", "loop_top",
               "sleeping", "stopped", "raised", "crashed", "exited"}
    /\ caller \in {"direct", "daemon", "main"}
    /\ calls \in 0..MaxCalls
    /\ Len(returned) <= calls
    /\ result \in {"none", "True", "False"}
    /\ outcome \in Outcomes \cup {"none"}
    /\ exit_code \in {-1, 0, 1}
    /\ in_flight \in 0..1
    /\ now >= 0

\* ------------------------------------------------- vocabulary of the claims
ConfiguredTopics == Get(config, "video_topics", <<>>)
TopicCount == Len(ConfiguredTopics)
RandomMode == Get(config, "topic_selection_mode", "sequential") = "random"
Disabled == IF "enabled" \in DOMAIN config THEN ~config["enabled"] ELSE TRUE
DistinctTopics ==
    \A i, j \in 1..TopicCount : i # j => ConfiguredTopics[i] # ConfiguredTopics[j]
Min(a, b) == IF a < b THEN a ELSE b
Max(a, b) == IF a > b THEN a ELSE b

\* C1: in sequential mode with N distinct topics, the calls of get_next_topic
\* on a fresh runner return the topics in configured order, call N+1 returns
\* what call 1 returned, and the first N returns are pairwise distinct.
C1_SequentialOrderWraps ==
    (~RandomMode /\ TopicCount > 0 /\ DistinctTopics) =>
        /\ \A k \in 1..Len(returned) :
              returned[k] = ConfiguredTopics[((k - 1) % TopicCount) + 1]
        /\ Len(returned) > TopicCount => returned[TopicCount + 1] = returned[1]
        /\ \A i, j \in 1..Min(TopicCount, Len(returned)) :
              i # j => returned[i] # returned[j]

\* two distinct topics, three calls: the third call wrapped to the first topic
C1_Witness ==
    /\ ~RandomMode /\ TopicCount = 2 /\ DistinctTopics
    /\ Len(returned) = 3
    /\ returned[3] = ConfiguredTopics[1]
    /\ returned[2] = ConfiguredTopics[2]

\* C2: with enabled false or missing, every run_once returns failure without
\* a network call, without selecting a topic and without moving the cursor.
C2_DisabledIsNoOp ==
    /\ [](Disabled => requests = 0 /\ in_flight = 0 /\ result # "True"
                      /\ pc # "posting")
    /\ [][(Disabled /\ pc = "run_once") =>
             /\ topic_index' = topic_index
             /\ returned' = returned
             /\ requests' = requests
             /\ topic' = topic
             /\ (pc' = "returned" => result' = "False")]_vars

\* a disabled runner whose second run_once has just returned failure
C2_Witness ==
    /\ Disabled
    /\ pc = "returned" /\ result = "False"
    /\ calls >= 2 /\ Len(returned) = 0 /\ requests = 0

\* C3: with an empty topic list every get_next_topic returns None and leaves
\* the cursor where it was, and an enabled run_once fails without a request.
C3_EmptyTopicsNoTopic ==
    TopicCount = 0 =>
        /\ \A k \in 1..Len(returned) : returned[k] = None
        /\ topic_index = 0
        /\ requests = 0 /\ in_flight = 0
        /\ pc # "posting" /\ result # "True"
        /\ (pc = "returned" => result = "False")

\* an enabled runner with no topics whose run_once has returned failure
\* after get_next_topic returned None
C3_Witness ==
    /\ TopicCount = 0 /\ ~Disabled
    /\ pc = "returned" /\ result = "False"
    /\ Len(returned) >= 2 /\ returned[Len(returned)] = None
    /\ topic_index = 0 /\ requests = 0

\* C4 as stated: whenever there are topics the cursor is in [0, topic_count).
C4_CursorBelowTopicCount ==
    TopicCount > 0 => topic_index \in 0..(TopicCount - 1)

\* C4 amended: the cursor is a non-negative counter that is never wrapped:
\* in sequential mode with topics it equals the number of selections made so
\* far, and otherwise it stays 0.
C4_CursorCountsSelections ==
    /\ topic_index >= 0
    /\ topic_index = IF TopicCount > 0 /\ ~RandomMode THEN Len(returned) ELSE 0

\* the cursor has run past the end of the list
C4_Witness ==
    /\ TopicCount = 2 /\ ~RandomMode
    /\ topic_index = 3 /\ Len(returned) = 3

\* C5: in random mode with topics, every topic returned is one of the
\* configured topics and no selection moves the cursor.
C5_RandomMemberNoEffect ==
    (RandomMode /\ TopicCount > 0) =>
        /\ \A k \in 1..Len(returned) :
              \E i \in 1..TopicCount : returned[k] = ConfiguredTopics[i]
        /\ topic_index = 0

\* three random selections that did not all pick the same topic
C5_Witness ==
    /\ RandomMode /\ TopicCount = 2
    /\ Len(returned) = 3
    /\ returned[1] # returned[2]
    /\ topic_index = 0

\* C6: in the daemon a cycle is followed by the same transition whether it
\* failed or succeeded (Waiting when the next run lies ahead, else the next
\* cycle at once), and no cycle outcome stops the daemon: only an
\* interruption does.
C6_FailureProceedsLikeSuccess ==
    /\ [][(pc = "returned" /\ caller = "daemon" /\ ~interrupted') =>
             pc' = IF now < start_time + interval_hours
                   THEN "sleeping" ELSE "loop_top"]_vars
    /\ [](pc \in {"stopped", "raised"} => interrupted)

\* a daemon cycle whose request timed out has gone to Waiting
C6_Witness ==
    /\ caller = "daemon" /\ pc = "sleeping"
    /\ result = "False" /\ outcome = "timeout"
    /\ ~interrupted

\* C7 as stated: the daemon ends only on an interruption, and an interruption
\* in any daemon state, Idle included, makes run_daemon return cleanly.
C7_InterruptStopsCleanly ==
    /\ pc \in {"stopped", "raised"} => interrupted
    /\ interrupted => pc = "stopped"

\* C8: every daemon cycle after the first starts at the later of the previous
\* cycle's start plus the interval and the previous cycle's end.
C8_NextCycleStart ==
    (caller = "daemon" /\ cycle >= 2 /\ pc \in {"run_once", "posting", "returned"}) =>
        start_time = Max(prev_start + interval_hours, end_time)

\* a third cycle that started at once because the second overran a positive
\* interval, the second having waited for its scheduled time
C8_Witness ==
    /\ caller = "daemon" /\ cycle = 3 /\ pc = "run_once"
    /\ interval_hours = 1
    /\ prev_start = 1
    /\ end_time = 3
    /\ start_time = 3

\* C9: a run_once issues at most one request, however the request ends.
C9_AtMostOneRequest ==
    /\ run_requests <= 1
    /\ requests <= calls
    /\ (pc = "returned" /\ outcome # "none") => run_requests = 1

\* a run_once that returned failure after a connection failure, with its one
\* request
C9_Witness ==
    /\ pc = "returned" /\ result = "False"
    /\ outcome = "connection_error"
    /\ run_requests = 1

\* C10 as stated: a run_once that returned failure has logged at least one
\* line.
C10_FailureIsLogged ==
    (pc = "returned" /\ result = "False") => run_logs >= 1

\* C11: a single run exits with 0 exactly when run_once returned success and
\* with 1 when it returned failure; the daemon never passes a status that
\* comes from a cycle to sys.exit.
C11_ExitCodeFollowsResult ==
    /\ pc = "exited" =>
          /\ caller = "main"
          /\ (exit_code = 0 <=> result = "True")
          /\ (exit_code = 1 <=> result = "False")
    /\ pc # "exited" => exit_code = -1
    /\ caller = "daemon" => exit_code = -1

\* a single run on an enabled configuration without topics has exited with 1
C11_Witness ==
    /\ pc = "exited" /\ exit_code = 1
    /\ ~Disabled /\ TopicCount = 0
    /\ result = "False"

\* C12: generate_video returns success exactly when the answer reports
\* status success; an application failure, a connection failure, a timeout
\* and any other transport error each make it return False, and none of them
\* leaves it as an exception.
C12_OutcomeClassified ==
    /\ pc # "crashed"
    /\ outcome # "none" =>
          /\ result \in {"True", "False"}
          /\ (result = "True" <=> outcome = "success")

\* a transport error other than connection failure and timeout came back as
\* False
C12_Witness ==
    /\ pc = "returned"
    /\ outcome = "request_exception"
    /\ result = "False"

\* C13: the body of the request carries, for each video_settings field, the
\* configured value when the field is given and the default when it is
\* missing, and the topic as videoSubject.
C13_PayloadReflectsSettings ==
    LET vs == Get(config, "video_settings", <<>>)
        Given(k) == k \in DOMAIN vs
    IN  pc = "posting" =>
        /\ payload.videoSubject = topic
        /\ Given("ai_model") => payload.aiModel = vs["ai_model"]
        /\ Given("voice") => payload.voice = vs["voice"]
        /\ Given("subtitles_color") => payload.color = vs["subtitles_color"]
        /\ payload.paragraphNumber =
              IF Given("paragraph_number") THEN vs["paragraph_number"] ELSE 1
        /\ payload.threads = IF Given("threads") THEN vs["threads"] ELSE 2
        /\ payload.useMusic = IF Given("use_music") THEN vs["use_music"] ELSE FALSE
        /\ payload.automateYoutubeUpload =
              IF Given("automate_youtube_upload")
              THEN vs["automate_youtube_upload"] ELSE FALSE
        /\ payload.subtitlesPosition =
              IF Given("subtitles_position")
              THEN vs["subtitles_position"] ELSE "center,bottom"

\* a request built from settings that give the model, the voice, the
\* paragraph count and the music flag and leave out the thread count
C13_Witness ==
    /\ pc = "posting"
    /\ "video_settings" \in DOMAIN config
    /\ DOMAIN config["video_settings"] =
          {"ai_model", "voice", "paragraph_number", "use_music"}
    /\ payload.aiModel = "gpt4" /\ payload.voice = "en_us_002"
    /\ payload.paragraphNumber = 3 /\ payload.useMusic = TRUE
    /\ payload.threads = 2
    /\ payload.videoSubject = "Topic 1"

\* C14 as stated: an enabled run_once with a non-empty topic list sends one
\* request whose videoSubject is the topic it selected and returns what
\* generate_video returned; it fails without a request only when there is no
\* topic.
C14_EnabledRunGenerates ==
    (pc = "returned" /\ ~Disabled /\ TopicCount > 0) =>
        /\ run_requests = 1
        /\ payload.videoSubject = topic
        /\ topic = returned[Len(returned)]
        /\ result = IF outcome = "success" THEN "True" ELSE "False"

\* C15: the daemon loops with the interval argument when one is given, 0
\* included, else with the configuration's generation_interval_hours, else
\* with 24 hours.
C15_EffectiveInterval ==
    (caller = "daemon" /\ pc \notin {"ready", "setup", "raised"}) =>
        interval_hours =
            IF Len(interval_arg) > 0 THEN interval_arg[1]
            ELSE IF "generation_interval_hours" \in DOMAIN config
            THEN config["generation_interval_hours"]
            ELSE 24

\* a daemon started with an override of 0 on a configuration that sets the
\* interval runs its first cycle with interval 0
C15_Witness ==
    /\ caller = "daemon" /\ pc = "run_once" /\ cycle = 1
    /\ interval_arg = <<0>>
    /\ "generation_interval_hours" \in DOMAIN config
    /\ interval_hours = 0

\* C16: at most one request is in flight, and a cycle starts only when the
\* request of the cycle before has returned, also after an overrun.
C16_CyclesDoNotOverlap ==
    /\ [](in_flight <= 1)
    /\ [](in_flight = 1 => pc = "posting")
    /\ [][cycle' = cycle + 1 => (in_flight = 0 /\ in_flight' = 0)]_vars

\* the request of a second cycle that started at once, the first cycle having
\* overrun an interval of one hour
C16_Witness ==
    /\ caller = "daemon" /\ cycle = 2 /\ pc = "posting"
    /\ interval_hours = 1
    /\ prev_start = 0 /\ end_time = 2 /\ start_time = 2
    /\ in_flight = 1 /\ requests = 2

\* what C17 is about: a daemon that is enabled, selects sequentially and has
\* topics, at a point where the current cycle has selected its topic
SequentialDaemon == caller = "daemon" /\ ~Disabled /\ ~RandomMode /\ TopicCount > 0
CycleHasSelected == pc \in {"posting", "returned", "sleeping"}

\* the j-th cycle after the current one reads this topic
TopicOfLaterCycle(j) == ConfiguredTopics[((topic_index + j - 1) % TopicCount) + 1]

\* the k-th cycle uses topics[(k-1) mod N] and has advanced the cursor by one,
\* whatever the earlier cycles returned
KthCycleUsesKthTopic ==
    (SequentialDaemon /\ CycleHasSelected) =>
        /\ topic = ConfiguredTopics[((cycle - 1) % TopicCount) + 1]
        /\ topic_index = cycle

\* C17 as stated, for a cycle whose request failed: in addition, for N >= 2
\* the cycles that follow it use a topic other than the failed one until N-1
\* of them have run.
C17_FailedTopicNotRepeated ==
    /\ KthCycleUsesKthTopic
    /\ (SequentialDaemon /\ CycleHasSelected /\ pc # "posting" /\ result = "False"
          /\ outcome # "none" /\ TopicCount >= 2) =>
            \A j \in 1..(TopicCount - 1) : TopicOfLaterCycle(j) # topic

\* C17 amended: the cycles that follow a failed cycle read the next list
\* positions, which hold a topic other than the failed one when the
\* configured topics are pairwise distinct.
C17_FailedTopicNotRepeatedIfDistinct ==
    /\ KthCycleUsesKthTopic
    /\ (SequentialDaemon /\ CycleHasSelected /\ pc # "posting" /\ result = "False"
          /\ TopicCount >= 2 /\ DistinctTopics) =>
            \A j \in 1..(TopicCount - 1) : TopicOfLaterCycle(j) # topic

\* the second cycle of a daemon with two distinct topics timed out on the
\* second topic, the cursor is at 2 and the next cycle reads the first topic
C17_Witness ==
    /\ SequentialDaemon /\ TopicCount = 2 /\ DistinctTopics
    /\ pc = "sleeping" /\ cycle = 2
    /\ result = "False" /\ outcome = "timeout"
    /\ topic = ConfiguredTopics[2] /\ topic_index = 2
    /\ TopicOfLaterCycle(1) = ConfiguredTopics[1]

\* C18: an enabled sequential daemon with topics that runs for ever selects
\* every list position again and again, and each selection reads the position
\* after the one before (modulo N), so that N consecutive cycles read each
\* position once.
C18_EveryTopicRecurs ==
    /\ \A i \in 1..MaxTopics :
          []<>(\/ Disabled \/ RandomMode \/ i > TopicCount
               \/ /\ pc \in {"posting", "returned"}
                  /\ topic = ConfiguredTopics[i]
                  /\ ((topic_index - 1) % TopicCount) + 1 = i)
    /\ [][(SequentialDaemon /\ pc = "run_once" /\ pc' \in {"posting", "returned"}) =>
             /\ topic' = ConfiguredTopics[(topic_index % TopicCount) + 1]
             /\ topic_index' % TopicCount = (topic_index + 1) % TopicCount]_vars

\* a cycle that follows a finished cycle has selected the second of two topics
C18_Witness ==
    /\ SequentialDaemon /\ TopicCount = 2
    /\ pc = "posting" /\ cycle = 1 /\ calls = 1
    /\ topic_index = 2
    /\ topic = ConfiguredTopics[2]
    /\ returned = <<ConfiguredTopics[2]>>

====
